---- MODULE Spec2Model ----
(***************************************************************************)
(* Model of src/Blockchain.py: the Block and Blockchain classes, the       *)
(* proof-of-work search, block and chain validation, and mining.           *)
(*                                                                         *)
(* Python objects are modelled by their __dict__: a block is a function    *)
(* from attribute names to values, so that an attribute can be absent      *)
(* (nonce before sealing, hash before appending or after delattr).         *)
(* Python lists are objects on a heap: a block's transactions attribute    *)
(* and Blockchain.unconfirmed_transactions hold references, because        *)
(* mine() hands the pending list itself to the new block (line 107).       *)
(*                                                                         *)
(* Transaction payloads are opaque and distinct: the n-th submitted one is  *)
(* n. time.time() is a clock that advances with every reading; its first   *)
(* reading, taken for the genesis block, is arbitrary.                     *)
(*                                                                         *)
(* Hex strings are either "0"*n, written Zeros(n), or a SHA-256 digest,    *)
(* written Sha256(s) and kept as its preimage (collision-free hashing)     *)
(* together with a residue that stands for its leading characters, a       *)
(* deterministic function of the preimage (Mix, LeadingZeros).             *)
(***************************************************************************)
EXTENDS Integers, Sequences, FiniteSets, TLC

\* ---- bounds of the model ----
MaxChain == 3      \* blocks in the chain, genesis included
MaxPending == 2    \* transactions in the pending buffer
MaxSubmitted == 4  \* calls of new_transaction
MaxTime == 2       \* distinct readings of time.time() at construction
HashMod == 3       \* residues that decide a digest's leading characters

\* ---- program constants ----
difficulty == 2            \* Blockchain.difficulty
SentinelLen == 64          \* "0"*64, previous_hash of the genesis block
StartLen == 1              \* "0", the validator's initial previous_hash
PyFalse == 0               \* Python's False (False == 0 holds in Python)

Txs == 1..MaxSubmitted
Times == 1..MaxTime
ListIds == 1..(MaxChain + 2)

VARIABLES
    heap,                       \* list objects: ListIds -> sequence of transactions
    chain,                      \* Blockchain.chain: sequence of block objects
    unconfirmed_transactions,   \* Blockchain.unconfirmed_transactions: a list reference
    last,                       \* the last completed call: its operation, arguments, result
    mined,                      \* number of mine() calls that returned a block index
    submitted,                  \* number of new_transaction calls; the n-th payload is n
    now,                        \* the next reading of time.time()
    pc,                         \* per request thread: position in its handler
    loc                         \* per request thread: local variables of its handler

vars == <<heap, chain, unconfirmed_transactions, last, mined, submitted, now, pc, loc>>

\* ---- hex strings and hashing ----

\* the string "0"*n
Zeros(n) == [zeros |-> n]

RECURSIVE SumSeq(_)
SumSeq(s) == IF s = <<>> THEN 0 ELSE Head(s) + SumSeq(Tail(s))

\* what one serialized attribute contributes to the digest's leading characters
FieldWeight(p) ==
    CASE p[1] \in {"index", "nonce", "timestamp"} -> p[2]
      [] p[1] = "transactions" -> SumSeq(p[2]) + Len(p[2])
      [] p[1] \in {"hash", "previous_hash"} ->
            IF "zeros" \in DOMAIN p[2] THEN p[2].zeros ELSE 1 + p[2].mix

\* residue of the input that decides the digest's leading characters
RECURSIVE Mix(_)
Mix(s) == IF s = <<>> THEN 0 ELSE (FieldWeight(Head(s)) + Mix(Tail(s))) % HashMod

\* sha256(s.encode()).hexdigest(): the digest is identified by its preimage,
\* mix stands for its leading characters
Sha256(s) == [pre |-> s, mix |-> Mix(s)]

\* number of leading '0' characters of a digest, up to difficulty
LeadingZeros(h) == IF h.mix = 0 THEN difficulty ELSE IF h.mix = 1 THEN difficulty - 1 ELSE 0

\* h.startswith('0'*n)
StartsWithZeros(h, n) ==
    IF "zeros" \in DOMAIN h THEN h.zeros >= n ELSE LeadingZeros(h) >= n

\* ---- objects ----
HasAttr(obj, k) == k \in DOMAIN obj
SetAttr(obj, k, v) == [x \in DOMAIN obj \cup {k} |-> IF x = k THEN v ELSE obj[x]]
DelAttr(obj, k) == [x \in DOMAIN obj \ {k} |-> obj[x]]

\* Block.__init__
Block(index, transactions, timestamp, previous_hash) ==
    [index |-> index, transactions |-> transactions,
     timestamp |-> timestamp, previous_hash |-> previous_hash]

\* keys of a block's __dict__ in sort_keys order
KeyOrder == <<"hash", "index", "nonce", "previous_hash", "timestamp", "transactions">>

\* json.dumps(block.__dict__, sort_keys=True): every attribute the object has
\* at the time of the call, the list of transactions written out by value
JsonDumps(block, h) ==
    LET keys == SelectSeq(KeyOrder, LAMBDA k : k \in DOMAIN block)
    IN  [i \in 1..Len(keys) |->
            <<keys[i], IF keys[i] = "transactions" THEN h[block.transactions]
                                                   ELSE block[keys[i]]>>]

\* Block.compute_hash
ComputeHash(block, h) == Sha256(JsonDumps(block, h))

\* Blockchain.is_valid_proof
IsValidProof(block, block_hash, h) ==
    StartsWithZeros(block_hash, difficulty) /\ block_hash = ComputeHash(block, h)

\* Blockchain.proof_of_work: the loop, entered with block.nonce already set
RECURSIVE PowLoop(_, _)
PowLoop(block, h) ==
    LET computed_hash == ComputeHash(block, h)
    IN  IF StartsWithZeros(computed_hash, difficulty)
        THEN [block |-> block, proof |-> computed_hash]
        ELSE PowLoop([block EXCEPT !.nonce = @ + 1], h)

\* the search starts at nonce 1
ProofOfWork_FromOne(block, h) == PowLoop(SetAttr(block, "nonce", 1), h)

\* Blockchain.proof_of_work: the block with its final nonce, and the digest
ProofOfWork(block, h) == PowLoop(SetAttr(block, "nonce", 0), h)

\* Blockchain.last_block
LastBlock(c) == c[Len(c)]

\* ---- the heap of list objects ----

\* list references held by a sequence of blocks
BlockRefs(blocks) == {blocks[i].transactions : i \in 1..Len(blocks)}

\* a list object not referenced from anywhere (a fresh [] or a caller's list)
FreshList(live) == CHOOSE i \in ListIds \ live : \A j \in ListIds \ live : i <= j

\* unreferenced list objects are freed
Sweep(h, live) == [i \in ListIds |-> IF i \in live THEN h[i] ELSE <<>>]

\* ---- request threads ----
Threads == 1..2
Idle == [op |-> "idle"]

\* list objects referenced by the ledger, by the caller of the last call and
\* by the handlers in progress
Live(c, u, l, lc) ==
    {u} \cup BlockRefs(c)
        \cup (IF "after" \in DOMAIN l THEN {l.after.transactions} ELSE {})
        \cup {lc[t].new_block.transactions : t \in {x \in Threads : "new_block" \in DOMAIN lc[x]}}

\* ---- construction ----

\* Blockchain.create_genesis_block: the hash is computed before it is stored
GenesisBlock(transactions, timestamp, h) ==
    LET genesis_block == Block(0, transactions, timestamp, Zeros(SentinelLen))
    IN  SetAttr(genesis_block, "hash", ComputeHash(genesis_block, h))

\* Blockchain.__init__: two fresh lists, then the genesis block
Init ==
    \E timestamp \in Times :
        /\ heap = [i \in ListIds |-> <<>>]
        /\ unconfirmed_transactions = 1
        /\ chain = <<GenesisBlock(2, timestamp, heap)>>
        /\ last = [op |-> "init"]
        /\ mined = 0
        /\ submitted = 0
        /\ now = timestamp + 1
        /\ pc = [t \in Threads |-> "idle"]
        /\ loc = [t \in Threads |-> Idle]

\* ---- operations of the ledger, executed one after another ----

\* Blockchain.new_transaction; payloads are distinct, the n-th one is n
NewTransaction ==
    /\ submitted < MaxSubmitted
    /\ Len(heap[unconfirmed_transactions]) < MaxPending
    /\ submitted' = submitted + 1
    /\ last' = [op |-> "new_transaction", transaction |-> submitted']
    /\ heap' = Sweep([heap EXCEPT ![unconfirmed_transactions] = Append(@, submitted')],
                     Live(chain, unconfirmed_transactions, last', loc))
    /\ UNCHANGED <<chain, unconfirmed_transactions, mined, now, pc, loc>>

\* add_block without the linkage test
LinkOk_Any(c, block) == TRUE

\* add_block, line 67: the candidate links to the current tip
LinkOk(c, block) == LastBlock(c).hash = block.previous_hash

\* Blockchain.add_block: the result, the chain and the candidate after the call
AddBlockCall(c, h, block, proof) ==
    IF ~HasAttr(LastBlock(c), "hash")
    THEN [raised |-> "AttributeError", chain |-> c, block |-> block]
    ELSE IF ~LinkOk(c, block)
    THEN [ret |-> FALSE, chain |-> c, block |-> block]
    ELSE IF ~IsValidProof(block, proof, h)
    THEN [ret |-> FALSE, chain |-> c, block |-> block]
    ELSE [ret |-> TRUE, chain |-> Append(c, SetAttr(block, "hash", proof)),
          block |-> SetAttr(block, "hash", proof)]

\* the new block takes the tip's index
NewBlockIndex_Tip(last_block) == last_block.index

\* mine, line 107: the index of the new block
NewBlockIndex(last_block) == last_block.index + 1

\* mine returns the index of the old tip
MineReturn_Tip(new_block) == new_block.index - 1

\* mine, line 111: the value returned after the append step
MineReturn(new_block) == new_block.index

\* the pending list is emptied in place instead of being replaced
MineCall_ClearInPlace(c, u, h, timestamp, fresh) ==
    LET last_block == LastBlock(c)
        new_block == Block(NewBlockIndex(last_block), u, timestamp, last_block.hash)
        pw == ProofOfWork(new_block, h)
        ab == AddBlockCall(c, h, pw.block, pw.proof)
    IN  [ret |-> MineReturn(ab.block), chain |-> ab.chain,
         unconfirmed_transactions |-> u, heap |-> [h EXCEPT ![u] = <<>>]]

\* the pending list is not replaced after the block was appended
MineCall_KeepPending(c, u, h, timestamp, fresh) ==
    LET last_block == LastBlock(c)
        new_block == Block(NewBlockIndex(last_block), u, timestamp, last_block.hash)
        pw == ProofOfWork(new_block, h)
        ab == AddBlockCall(c, h, pw.block, pw.proof)
    IN  [ret |-> MineReturn(ab.block), chain |-> ab.chain,
         unconfirmed_transactions |-> u, heap |-> h]

\* Blockchain.mine, lines 105-111, for a non-empty pending list; fresh is the
\* list object created by the [] of line 110
MineCall(c, u, h, timestamp, fresh) ==
    IF ~HasAttr(LastBlock(c), "hash")
    THEN [raised |-> "AttributeError", chain |-> c, unconfirmed_transactions |-> u, heap |-> h]
    ELSE LET last_block == LastBlock(c)
             new_block == Block(NewBlockIndex(last_block), u, timestamp, last_block.hash)
             pw == ProofOfWork(new_block, h)
             ab == AddBlockCall(c, h, pw.block, pw.proof)
         IN  [ret |-> MineReturn(ab.block), chain |-> ab.chain,
              unconfirmed_transactions |-> fresh, heap |-> [h EXCEPT ![fresh] = <<>>]]

\* Blockchain.mine
Mine ==
    IF heap[unconfirmed_transactions] = <<>>
    THEN /\ last' = [op |-> "mine", ret |-> PyFalse]
         /\ heap' = Sweep(heap, Live(chain, unconfirmed_transactions, last', loc))
         /\ UNCHANGED <<chain, unconfirmed_transactions, mined, submitted, now, pc, loc>>
    ELSE /\ Len(chain) < MaxChain
         /\ LET fresh == FreshList(Live(chain, unconfirmed_transactions, [op |-> "mine"], loc))
                 r == MineCall(chain, unconfirmed_transactions, heap, now, fresh)
             IN   /\ chain' = r.chain
                  /\ unconfirmed_transactions' = r.unconfirmed_transactions
                  /\ last' = IF "raised" \in DOMAIN r
                             THEN [op |-> "mine", raised |-> r.raised]
                             ELSE [op |-> "mine", ret |-> r.ret]
                  /\ mined' = IF "raised" \in DOMAIN r THEN mined ELSE mined + 1
                  /\ now' = IF "raised" \in DOMAIN r THEN now ELSE now + 1
                  /\ heap' = Sweep(r.heap, Live(chain', unconfirmed_transactions', last', loc))
         /\ UNCHANGED <<submitted, pc, loc>>

\* the blocks and proofs handed to add_block by a caller
CandidateIndices == 0..1
CandidateTransactions == {<<1>>}
CandidateTimes == {MaxTime}
TipHash(c) == IF HasAttr(LastBlock(c), "hash") THEN {LastBlock(c).hash} ELSE {}

\* Blockchain.add_block called with a block built by the caller: any index,
\* linked to the tip or not, with any nonce and its digest as proof, or with
\* a proof that is not its digest
AddBlock ==
    /\ Len(chain) < MaxChain
    /\ \E index \in CandidateIndices, transactions \in CandidateTransactions,
          timestamp \in CandidateTimes, nonce \in 0..(HashMod - 1),
          previous_hash \in TipHash(chain) \cup {Zeros(SentinelLen)},
          sealed \in BOOLEAN :
         /\ sealed \/ nonce = 0
         /\ LET ref == FreshList(Live(chain, unconfirmed_transactions, [op |-> "add_block"], loc))
                h == [heap EXCEPT ![ref] = transactions]
                block == SetAttr(Block(index, ref, timestamp, previous_hash), "nonce", nonce)
                proof == IF sealed THEN ComputeHash(block, h) ELSE Zeros(SentinelLen)
                r == AddBlockCall(chain, h, block, proof)
            IN  /\ chain' = r.chain
                /\ last' = IF "raised" \in DOMAIN r
                           THEN [op |-> "add_block", proof |-> proof, raised |-> r.raised,
                                 after |-> r.block]
                           ELSE [op |-> "add_block", proof |-> proof, ret |-> r.ret,
                                 after |-> r.block]
                /\ heap' = Sweep(h, Live(chain', unconfirmed_transactions, last', loc))
    /\ UNCHANGED <<unconfirmed_transactions, mined, submitted, now, pc, loc>>

Next == NewTransaction \/ Mine \/ AddBlock

Spec == Init /\ [][Next]_vars

\* ---- print_block ----

\* the positions print_block is asked for
Positions == 0..(MaxChain + 1)

\* the string print_block formats: the four values in the order of the text
FormatBlock(block, h) ==
    [Index |-> block.index, Transactions |-> h[block.transactions],
     Timestamp |-> block.timestamp, PreviousHash |-> block.previous_hash]

\* Blockchain.print_block, lines 45-51: None, the formatted block, or the
\* IndexError of self.chain[n]
PrintBlockCall(c, h, n) ==
    IF Len(c) < n
    THEN [ret |-> [none |-> TRUE]]
    ELSE IF n + 1 \in DOMAIN c
         THEN [ret |-> FormatBlock(c[n + 1], h)]
         ELSE [raised |-> "IndexError"]

PrintBlock ==
    /\ \E n \in Positions :
          LET r == PrintBlockCall(chain, heap, n)
          IN  last' = IF "raised" \in DOMAIN r
                      THEN [op |-> "print_block", n |-> n, raised |-> r.raised]
                      ELSE [op |-> "print_block", n |-> n, ret |-> r.ret]
    /\ heap' = Sweep(heap, Live(chain, unconfirmed_transactions, last', loc))
    /\ UNCHANGED <<chain, unconfirmed_transactions, mined, submitted, now, pc, loc>>

NextPrint == NewTransaction \/ Mine \/ AddBlock \/ PrintBlock

SpecPrint == Init /\ [][NextPrint]_vars

\* ---- chain validation ----

\* a block is rejected only when both tests fail
BlockFails_Both(block, block_hash, previous_hash, h) ==
    ~IsValidProof(block, block_hash, h) /\ previous_hash # block.previous_hash

\* check_chain_validity, line 91: the block is rejected
BlockFails(block, block_hash, previous_hash, h) ==
    ~IsValidProof(block, block_hash, h) \/ previous_hash # block.previous_hash

\* check_chain_validity, lines 86-94: the loop from block i on; the hash
\* attribute is deleted before the test and put back only when it passes
RECURSIVE ValidityLoop(_, _, _, _)
ValidityLoop(c, i, previous_hash, h) ==
    IF i > Len(c)
    THEN [result |-> TRUE, chain |-> c]
    ELSE IF ~HasAttr(c[i], "hash")
    THEN [raised |-> "AttributeError", chain |-> c]
    ELSE LET block_hash == c[i].hash
             block == DelAttr(c[i], "hash")
         IN  IF BlockFails(block, block_hash, previous_hash, h)
             THEN [result |-> FALSE, chain |-> [c EXCEPT ![i] = block]]
             ELSE ValidityLoop([c EXCEPT ![i] = SetAttr(block, "hash", block_hash)],
                               i + 1, block_hash, h)

\* Blockchain.check_chain_validity: the result (or the exception) and the
\* blocks as the call leaves them
CheckChainValidity(c, h) == ValidityLoop(c, 1, Zeros(StartLen), h)

\* check_chain_validity applied to the ledger's chain
Validate ==
    LET r == CheckChainValidity(chain, heap)
    IN  /\ chain' = r.chain
        /\ last' = IF "raised" \in DOMAIN r
                   THEN [op |-> "check_chain_validity", raised |-> r.raised]
                   ELSE [op |-> "check_chain_validity", ret |-> r.result]
        /\ heap' = Sweep(heap, Live(chain', unconfirmed_transactions, last', loc))
        /\ UNCHANGED <<unconfirmed_transactions, mined, submitted, now, pc, loc>>

NextCheck == NewTransaction \/ Mine \/ AddBlock \/ Validate

SpecCheck == Init /\ [][NextCheck]_vars

\* ---- request handlers running on concurrent threads ----
\* Flask serves each request on its own thread. A step is one statement of
\* Blockchain.mine, add_block or proof_of_work that reads or writes shared
\* state (the chain, the pending list, a list object), together with the
\* statements after it that touch only the thread's own locals.

MineOps == {"m_tip", "m_build", "p_hash", "a_tip", "a_proof", "a_append", "m_clear", "m_ret"}

\* mine() calls in progress
Mining == {t \in Threads : pc[t] \in MineOps}

SetLoc(t, v) == [loc EXCEPT ![t] = v]

\* POST /new_transaction: Blockchain.new_transaction, line 99
TNewTransaction(t) ==
    /\ pc[t] = "idle"
    /\ submitted < MaxSubmitted
    /\ Len(heap[unconfirmed_transactions]) < MaxPending
    /\ submitted' = submitted + 1
    /\ heap' = Sweep([heap EXCEPT ![unconfirmed_transactions] = Append(@, submitted')],
                     Live(chain, unconfirmed_transactions, last, loc))
    /\ UNCHANGED <<chain, unconfirmed_transactions, last, mined, now, pc, loc>>

\* GET /mine: mine, line 103
TMineCheck(t) ==
    /\ pc[t] = "idle"
    /\ Len(chain) + Cardinality(Mining) < MaxChain
    /\ IF heap[unconfirmed_transactions] = <<>>
       THEN /\ loc' = SetLoc(t, [op |-> "mine", ret |-> PyFalse])
            /\ pc' = pc
       ELSE /\ loc' = SetLoc(t, [op |-> "mine"])
            /\ pc' = [pc EXCEPT ![t] = "m_tip"]
    /\ heap' = Sweep(heap, Live(chain, unconfirmed_transactions, last, loc'))
    /\ UNCHANGED <<chain, unconfirmed_transactions, last, mined, submitted, now>>

\* mine, line 105
TMineTip(t) ==
    /\ pc[t] = "m_tip"
    /\ loc' = SetLoc(t, [op |-> "mine", last_block |-> LastBlock(chain)])
    /\ pc' = [pc EXCEPT ![t] = "m_build"]
    /\ UNCHANGED <<heap, chain, unconfirmed_transactions, last, mined, submitted, now>>

\* mine, line 107, and proof_of_work, line 55: the new block refers to the
\* pending list itself
TMineBuild(t) ==
    /\ pc[t] = "m_build"
    /\ loc' = SetLoc(t, [op |-> "mine",
                         new_block |-> SetAttr(Block(NewBlockIndex(loc[t].last_block),
                                                     unconfirmed_transactions, now,
                                                     loc[t].last_block.hash),
                                               "nonce", 0)])
    /\ now' = now + 1
    /\ pc' = [pc EXCEPT ![t] = "p_hash"]
    /\ UNCHANGED <<heap, chain, unconfirmed_transactions, last, mined, submitted>>

\* the nonce is not incremented when the digest does not qualify
TPowHash_SameNonce(t) ==
    /\ pc[t] = "p_hash"
    /\ LET computed_hash == ComputeHash(loc[t].new_block, heap)
       IN  IF StartsWithZeros(computed_hash, difficulty)
           THEN /\ loc' = SetLoc(t, [op |-> "mine", new_block |-> loc[t].new_block,
                                     proof |-> computed_hash])
                /\ pc' = [pc EXCEPT ![t] = "a_tip"]
           ELSE /\ loc' = loc
                /\ pc' = pc
    /\ UNCHANGED <<heap, chain, unconfirmed_transactions, last, mined, submitted, now>>

\* proof_of_work, lines 56-61: one computation of the hash, then either the
\* return or the increment of the nonce
TPowHash(t) ==
    /\ pc[t] = "p_hash"
    /\ LET computed_hash == ComputeHash(loc[t].new_block, heap)
       IN  IF StartsWithZeros(computed_hash, difficulty)
           THEN /\ loc' = SetLoc(t, [op |-> "mine", new_block |-> loc[t].new_block,
                                     proof |-> computed_hash])
                /\ pc' = [pc EXCEPT ![t] = "a_tip"]
           ELSE /\ loc' = SetLoc(t, [loc[t] EXCEPT !.new_block.nonce = @ + 1])
                /\ pc' = pc
    /\ UNCHANGED <<heap, chain, unconfirmed_transactions, last, mined, submitted, now>>

\* add_block, lines 65-68
TAddTip(t) ==
    /\ pc[t] = "a_tip"
    /\ IF LinkOk(chain, loc[t].new_block)
       THEN /\ pc' = [pc EXCEPT ![t] = "a_proof"]
            /\ loc' = loc
       ELSE /\ pc' = [pc EXCEPT ![t] = "m_clear"]
            /\ loc' = SetLoc(t, [op |-> "mine", new_block |-> loc[t].new_block, added |-> FALSE])
    /\ UNCHANGED <<heap, chain, unconfirmed_transactions, last, mined, submitted, now>>

\* add_block, lines 70-71
TAddProof(t) ==
    /\ pc[t] = "a_proof"
    /\ IF IsValidProof(loc[t].new_block, loc[t].proof, heap)
       THEN /\ pc' = [pc EXCEPT ![t] = "a_append"]
            /\ loc' = loc
       ELSE /\ pc' = [pc EXCEPT ![t] = "m_clear"]
            /\ loc' = SetLoc(t, [op |-> "mine", new_block |-> loc[t].new_block, added |-> FALSE])
    /\ UNCHANGED <<heap, chain, unconfirmed_transactions, last, mined, submitted, now>>

\* add_block, lines 72-74
TAddAppend(t) ==
    /\ pc[t] = "a_append"
    /\ LET block == SetAttr(loc[t].new_block, "hash", loc[t].proof)
       IN  /\ chain' = Append(chain, block)
           /\ loc' = SetLoc(t, [op |-> "mine", new_block |-> block, added |-> TRUE])
    /\ pc' = [pc EXCEPT ![t] = "m_clear"]
    /\ UNCHANGED <<heap, unconfirmed_transactions, last, mined, submitted, now>>

\* mine, line 110: the result of add_block is not looked at
TMineClear(t) ==
    /\ pc[t] = "m_clear"
    /\ LET fresh == FreshList(Live(chain, unconfirmed_transactions, last, loc))
       IN  /\ unconfirmed_transactions' = fresh
           /\ heap' = Sweep([heap EXCEPT ![fresh] = <<>>],
                            Live(chain, fresh, last, loc))
    /\ pc' = [pc EXCEPT ![t] = "m_ret"]
    /\ UNCHANGED <<chain, last, mined, submitted, now, loc>>

\* mine, line 111; added is what add_block returned
TMineReturn(t) ==
    /\ pc[t] = "m_ret"
    /\ loc' = SetLoc(t, [op |-> "mine", ret |-> MineReturn(loc[t].new_block),
                         added |-> loc[t].added])
    /\ pc' = [pc EXCEPT ![t] = "idle"]
    /\ heap' = Sweep(heap, Live(chain, unconfirmed_transactions, last, loc'))
    /\ UNCHANGED <<chain, unconfirmed_transactions, last, mined, submitted, now>>

NextConc ==
    \E t \in Threads :
        \/ TNewTransaction(t)
        \/ TMineCheck(t)
        \/ TMineTip(t)
        \/ TMineBuild(t)
        \/ TPowHash(t)
        \/ TAddTip(t)
        \/ TAddProof(t)
        \/ TAddAppend(t)
        \/ TMineClear(t)
        \/ TMineReturn(t)

SpecConc == Init /\ [][NextConc]_vars

\* the statements of a mine() call that has started: the thread serving the
\* request runs until the request is answered
MineStep(t) ==
    \/ TMineTip(t)
    \/ TMineBuild(t)
    \/ TPowHash(t)
    \/ TAddTip(t)
    \/ TAddProof(t)
    \/ TAddAppend(t)
    \/ TMineClear(t)
    \/ TMineReturn(t)

\* the thread that serves GET /mine when one such request runs at a time
Miner == CHOOSE t \in Threads : \A u \in Threads : t <= u

\* one GET /mine at a time, while every thread serves POST /new_transaction
NextLive ==
    \/ \E t \in Threads : TNewTransaction(t)
    \/ TMineCheck(Miner)
    \/ MineStep(Miner)

\* the interpreter keeps scheduling a thread that can run
SpecLive == Init /\ [][NextLive]_vars /\ WF_vars(MineStep(Miner))

\* ---- properties ----

\* a chain produced by mine() calls alone on a fresh ledger
MinedOnly == Len(chain) = mined + 1

\* C1: for a fresh ledger and any sequence of new_transaction and mine calls,
\* check_chain_validity applied to the resulting chain returns true.
C1_MinedChainValid ==
    MinedOnly =>
        LET r == CheckChainValidity(chain, heap)
        IN  "result" \in DOMAIN r /\ r.result = TRUE

\* C2: check_chain_validity leaves every block as it was, whatever it returns,
\* so a second call in a row completes and gives the same answer.
C2_ValidateNoSideEffect ==
    [][last'.op = "check_chain_validity" =>
          /\ chain' = chain
          /\ "ret" \in DOMAIN last'
          /\ CheckChainValidity(chain', heap') = [result |-> last'.ret, chain |-> chain']]_vars

\* C3: for every block stored in the chain, compute_hash() of the block as
\* stored equals the block's stored hash.
C3_StoredHashRoundTrip ==
    \A i \in 1..Len(chain) : ComputeHash(chain[i], heap) = chain[i].hash

\* C4: right after construction the chain has exactly one block, with index 0,
\* previous_hash "0"*64 and a hash that begins with difficulty zero characters.
C4_GenesisInvariant ==
    last.op = "init" =>
        /\ Len(chain) = 1
        /\ chain[1].index = 0
        /\ chain[1].previous_hash = Zeros(SentinelLen)
        /\ StartsWithZeros(chain[1].hash, difficulty)

\* C5: after any sequence of new_transaction, mine and add_block calls the
\* indices are strictly increasing from 0 and every block's previous_hash is
\* the hash of the block before it.
C5_IndicesAndLinks ==
    /\ chain[1].index = 0
    /\ \A i \in 2..Len(chain) :
          /\ chain[i].index > chain[i - 1].index
          /\ chain[i].previous_hash = chain[i - 1].hash

\* C6: mine() with a non-empty pending buffer appends exactly one block, with
\* index tip.index + 1, the old tip's hash as previous_hash and the pending
\* transactions in order, empties the buffer and returns the new index; the
\* k-th successful mine on a fresh ledger returns k and makes the length k + 1.
C6_MineAppendsOneBlock ==
    [][(last'.op = "mine" /\ heap[unconfirmed_transactions] # <<>>) =>
          /\ Len(chain') = Len(chain) + 1
          /\ SubSeq(chain', 1, Len(chain)) = chain
          /\ LastBlock(chain').index = LastBlock(chain).index + 1
          /\ LastBlock(chain').previous_hash = LastBlock(chain).hash
          /\ heap'[LastBlock(chain').transactions] = heap[unconfirmed_transactions]
          /\ heap'[unconfirmed_transactions'] = <<>>
          /\ "ret" \in DOMAIN last'
          /\ last'.ret = LastBlock(chain').index
          /\ MinedOnly => (last'.ret = mined' /\ Len(chain') = mined' + 1)]_vars

C6_Witness ==
    /\ last.op = "mine"
    /\ mined = 2
    /\ Len(chain) = 3
    /\ last.ret = 2
    /\ heap[chain[2].transactions] = <<1, 2>>
    /\ heap[chain[3].transactions] = <<3, 4>>
    /\ heap[unconfirmed_transactions] = <<>>

\* C7: mine() with an empty pending buffer returns the nothing-to-mine signal
\* and leaves chain and buffer unchanged; no successful mine returns a value
\* equal to that signal.
C7_MineEmpty ==
    [][last'.op = "mine" =>
          IF heap[unconfirmed_transactions] = <<>>
          THEN /\ last'.ret = PyFalse
               /\ chain' = chain
               /\ unconfirmed_transactions' = unconfirmed_transactions
               /\ heap'[unconfirmed_transactions'] = <<>>
          ELSE /\ Len(chain') > Len(chain)
               /\ last'.ret # PyFalse]_vars

C7_Witness ==
    /\ last.op = "mine"
    /\ last.ret = PyFalse
    /\ mined = 1
    /\ Len(chain) = 2

\* C8: add_block returns false, leaves the chain unchanged and assigns no
\* hash to the candidate whenever the candidate's previous_hash differs from
\* the tip's hash or the proof is not a valid proof of the candidate.
C8_RejectedAppend ==
    [][last'.op = "add_block" =>
          LET block == DelAttr(last'.after, "hash")
              proof == last'.proof
          IN  (\/ block.previous_hash # LastBlock(chain).hash
               \/ ~StartsWithZeros(proof, difficulty)
               \/ proof # ComputeHash(block, heap'))
              => /\ last'.ret = FALSE
                 /\ chain' = chain
                 /\ ~HasAttr(last'.after, "hash")]_vars

\* a properly sealed block with a wrong previous_hash was rejected
C8_Witness ==
    /\ last.op = "add_block"
    /\ last.ret = FALSE
    /\ Len(chain) = 2
    /\ last.after.previous_hash # LastBlock(chain).hash
    /\ StartsWithZeros(last.proof, difficulty)
    /\ last.proof = ComputeHash(last.after, heap)

\* C9: if the append step inside mine() fails, the block is discarded and the
\* transactions stay pending: mine() clears the pending buffer and returns a
\* block index only when its block was appended to the chain.
C9_ClearOnlyIfAppended ==
    \A t \in Threads :
        (\/ pc[t] = "m_ret"
         \/ (pc[t] = "idle" /\ "ret" \in DOMAIN loc[t] /\ loc[t].ret # PyFalse))
        => loc[t].added

\* the values a tampered previous_hash can take
TamperHashes == {Zeros(StartLen), Zeros(SentinelLen)} \cup {chain[i].hash : i \in 1..Len(chain)}

\* C10: for a chain built by mine() calls, changing one transaction, the
\* previous_hash or the nonce of one stored block makes check_chain_validity
\* return false.
C10_TamperDetected ==
    MinedOnly =>
        \A i \in 1..Len(chain) :
            /\ \A j \in 1..Len(heap[chain[i].transactions]), tx \in Txs :
                  tx # heap[chain[i].transactions][j] =>
                      CheckChainValidity(chain,
                          [heap EXCEPT ![chain[i].transactions][j] = tx]).result = FALSE
            /\ \A ph \in TamperHashes :
                  ph # chain[i].previous_hash =>
                      CheckChainValidity([chain EXCEPT ![i].previous_hash = ph], heap).result = FALSE
            /\ \A n \in 0..HashMod :
                  (HasAttr(chain[i], "nonce") /\ n # chain[i].nonce) =>
                      CheckChainValidity([chain EXCEPT ![i].nonce = n], heap).result = FALSE

\* two blocks mined on a genesis block whose hash meets the difficulty
C10_Witness ==
    /\ mined = 2
    /\ Len(chain) = 3
    /\ StartsWithZeros(chain[1].hash, difficulty)
    /\ Len(heap[chain[3].transactions]) = 2

\* C11: when proof_of_work returns, the digest begins with difficulty zero
\* characters and is the digest of the block with its final nonce, and that
\* nonce is the smallest non-negative integer whose digest does so.
C11_ProofOfWorkMinimal ==
    [][(last'.op = "mine" /\ Len(chain') > Len(chain)) =>
          LET sealed == DelAttr(LastBlock(chain'), "hash")
              proof == LastBlock(chain').hash
          IN  /\ StartsWithZeros(proof, difficulty)
              /\ proof = ComputeHash(sealed, heap')
              /\ sealed.nonce >= 0
              /\ \A n \in 0..(sealed.nonce - 1) :
                    ~StartsWithZeros(ComputeHash([sealed EXCEPT !.nonce = n], heap'),
                                     difficulty)]_vars

\* a mined block whose search went through nonces 0 and 1
C11_Witness ==
    /\ last.op = "mine"
    /\ last.ret = 1
    /\ Len(chain) = 2
    /\ LastBlock(chain).nonce = 2

\* C12: across new_transaction, mine and add_block calls the chain is
\* append-only: every block keeps its position and all its fields, its hash
\* included, and the length never decreases.
C12_AppendOnly ==
    [][/\ Len(chain') >= Len(chain)
       /\ \A i \in 1..Len(chain) :
             /\ chain'[i] = chain[i]
             /\ heap'[chain'[i].transactions] = heap[chain[i].transactions]]_vars

\* a transaction was submitted after two blocks were mined
C12_Witness ==
    /\ last.op = "new_transaction"
    /\ mined = 2
    /\ Len(chain) = 3
    /\ heap[chain[2].transactions] = <<1>>
    /\ heap[chain[3].transactions] = <<2, 3>>
    /\ heap[unconfirmed_transactions] = <<4>>

\* C13: with two mine() calls running concurrently, the chain never holds
\* two blocks with the same previous_hash.
C13_NoFork ==
    \A i \in 1..Len(chain) : \A j \in 1..Len(chain) :
        i < j => chain[i].previous_hash # chain[j].previous_hash

\* C14: a new_transaction that executes after mine() built its candidate
\* changes the transactions neither of a candidate nor of a block of the chain.
C14_Snapshot ==
    [][(\E t \in Threads : TNewTransaction(t)) =>
          /\ \A i \in 1..Len(chain) :
                heap'[chain[i].transactions] = heap[chain[i].transactions]
          /\ \A t \in Threads :
                "new_block" \in DOMAIN loc[t] =>
                    heap'[loc[t].new_block.transactions]
                        = heap[loc[t].new_block.transactions]]_vars

\* C15: is_valid_proof(block, block_hash) is true exactly when block_hash
\* begins with difficulty zero characters and is the digest of the block's
\* index, transactions, timestamp, previous_hash and nonce; checked on the
\* blocks of the chain with their stored hash.
C15_ValidProofIff ==
    \A i \in 1..Len(chain) :
        HasAttr(chain[i], "hash") =>
            (IsValidProof(chain[i], chain[i].hash, heap)
                <=> /\ StartsWithZeros(chain[i].hash, difficulty)
                    /\ chain[i].hash = ComputeHash(DelAttr(chain[i], "hash"), heap))

\* C16: every proof_of_work call eventually returns, and so does every mine()
\* call that found the pending list non-empty: no thread stays in the search,
\* or in mine(), from some point on.
C16_SearchTerminates ==
    \A t \in Threads :
        /\ []<>(pc[t] # "p_hash")
        /\ []<>(pc[t] \notin MineOps)

\* proof_of_work has returned after a search that went through nonces 0 and 1
C16_Witness ==
    \E t \in Threads :
        /\ pc[t] = "a_tip"
        /\ loc[t].new_block.nonce = 2
        /\ StartsWithZeros(loc[t].proof, difficulty)

\* the transactions of the blocks of the chain, in chain order
RECURSIVE Ledger(_, _)
Ledger(c, h) ==
    IF c = <<>> THEN <<>> ELSE Ledger(SubSeq(c, 1, Len(c) - 1), h) \o h[c[Len(c)].transactions]

\* C17: after new_transaction and mine calls every transaction submitted so
\* far occurs exactly once in the transactions of the chain's blocks followed
\* by the pending list, in the order of submission.
C17_Conserved ==
    MinedOnly =>
        Ledger(chain, heap) \o heap[unconfirmed_transactions] = [i \in 1..submitted |-> i]

\* two blocks mined and a transaction pending
C17_Witness ==
    /\ MinedOnly
    /\ mined = 2
    /\ Ledger(chain, heap) = <<1, 2, 3>>
    /\ heap[unconfirmed_transactions] = <<4>>

\* C18: print_block(n) returns None without raising for every n >= len(chain)
\* and the formatted fields of chain[n] for 0 <= n < len(chain).
C18_PrintBlockTotal ==
    last.op = "print_block" =>
        /\ "ret" \in DOMAIN last
        /\ last.ret = IF last.n >= Len(chain)
                      THEN [none |-> TRUE]
                      ELSE FormatBlock(chain[last.n + 1], heap)

====
